---- MODULE Spec2Model ----
\* bevy_trimesh: conversion of a bevy Mesh into the buffers of a parry3d
\* TriMesh, and the CachedTriMeshBuilder that keeps the converted buffers.
\*
\* f32 components are modelled by small integers (every one of them is exactly
\* representable); a [f32; 3] array is a 3-tuple, a Point is a record x, y, z.
\* A lazy iterator is modelled by the sequence of items it yields.
\* Owned Vec buffers live in `heap`: a Vec is an address, Vec::clone and
\* collect() allocate a fresh address.
EXTENDS Integers, Sequences, FiniteSets, TLC

VARIABLES
    mesh,      \* the bevy Mesh the caller passes: position attribute, index buffer
    arg,       \* the buffer handed to a converter that is called directly
    ret,       \* the last call of a function that allocates nothing, and its result
    lookups,   \* the Mesh accessors the last extract_geometry call invoked, in order
    oneshot,   \* the result of trimesh_from_mesh(mesh)
    builder,   \* the result of CachedTriMeshBuilder::from_mesh(mesh)
    created,   \* the contents of the builder's buffers when from_mesh returned
    outs,      \* the TriMesh values returned by build / build_with_vertex_transform,
               \* each with the call that made it and its contents at return
    heap       \* the owned buffers, by address

vars == <<mesh, arg, ret, lookups, oneshot, builder, created, outs, heap>>

----------------------------------------------------------------------------
\* Bounds

\* meshes of Spec: position buffers are Run(s, n), s <= MaxStart, n <= MaxVerts
MaxStart == 0
MaxVerts == 3
MaxIndex == 2
MaxIdxLen == 4
\* meshes of SpecCache
CacheMaxVerts == 2
CacheMaxIndex == 2
CacheMaxIdxLen == 3
MaxBuilds == 2
\* buffers of SpecConv
MaxCoord == 1
ConvMaxVerts == 2
ConvMaxIndex == 1
ConvMaxIdxLen == 6

----------------------------------------------------------------------------
\* Values

SeqsUpTo(S, n) == UNION {[1..m -> S] : m \in 0..n}

\* Option::None, and a call that has not been made
None == [tag |-> "None", val |-> <<>>]
Pending == [ok |-> FALSE, err |-> [variant |-> "pending", source |-> [error |-> "", msg |-> ""]]]

Ok(v) == [ok |-> TRUE, val |-> v]
Err(e) == [ok |-> FALSE, err |-> e]

\* the k-th of the [f32; 3] arrays used for mesh positions
PointOf(k) == <<k % 2, (k \div 2) % 2, (k \div 4) % 2>>

\* n consecutive positions starting at the s-th
Run(s, n) == [i \in 1..n |-> PointOf(s + i - 1)]

\* VertexAttributeValues of a layout other than Float3
OtherVertexValues ==
    { [tag |-> "Float2", val |-> << <<0, 1>> >>],
      [tag |-> "Int3",   val |-> << <<0, 1, 0>>, <<1, 0, 0>>, <<0, 0, 1>> >>],
      [tag |-> "Float4", val |-> << <<0, 1, 0, 1>> >>],
      [tag |-> "Float",  val |-> <<>>] }

\* Indices::U16 values
U16Values ==
    { [tag |-> "U16", val |-> <<>>],
      [tag |-> "U16", val |-> <<0, 1, 2>>],
      [tag |-> "U16", val |-> <<0, 0, 0, 0>>] }

Float3(v) == [tag |-> "Float3", val |-> v]
U32(v) == [tag |-> "U32", val |-> v]

Meshes ==
    [ position : {None} \cup OtherVertexValues
                 \cup {Float3(Run(s, n)) : s \in 0..MaxStart, n \in 0..MaxVerts},
      indices  : {None} \cup U16Values
                 \cup {U32(s) : s \in SeqsUpTo(0..MaxIndex, MaxIdxLen)} ]

CacheMeshes ==
    [ position : {None, [tag |-> "Float2", val |-> << <<0, 1>> >>]}
                 \cup {Float3(Run(0, n)) : n \in 0..CacheMaxVerts},
      indices  : {None, [tag |-> "U16", val |-> <<0, 1, 2>>]}
                 \cup {U32(s) : s \in SeqsUpTo(0..CacheMaxIndex, CacheMaxIdxLen)} ]

ConvVertexBuffers ==
    OtherVertexValues
    \cup {Float3(s) : s \in SeqsUpTo((0..MaxCoord) \X (0..MaxCoord) \X (0..MaxCoord),
                                     ConvMaxVerts)}

ConvIndexBuffers ==
    U16Values \cup {U32(s) : s \in SeqsUpTo(0..ConvMaxIndex, ConvMaxIdxLen)}

----------------------------------------------------------------------------
\* The functions of lib.rs

\* ExtractGeometryError
NoVertexPositionData ==
    [error |-> "NoVertexPositionData",
     msg |-> "no vertex position data found in the specified mesh"]
NoVertexIndicies ==
    [error |-> "NoVertexIndicies",
     msg |-> "no vertex indicies found in the specified mesh"]

UnsupportedFormatError(msg) == [error |-> "UnsupportedFormatError", msg |-> msg]

\* Point::from_slice on a [f32; 3]
Point_from_slice(v) == [x |-> v[1], y |-> v[2], z |-> v[3]]

\* extract_geometry, with the accessors it calls on the mesh
extract_geometry_indices_first(m) ==
    IF m.indices = None
    THEN [res |-> Err(NoVertexIndicies), lookups |-> <<"indices">>]
    ELSE IF m.position = None
    THEN [res |-> Err(NoVertexPositionData), lookups |-> <<"indices", "attribute">>]
    ELSE [res |-> Ok([verticies |-> m.position, indicies |-> m.indices]),
          lookups |-> <<"indices", "attribute">>]

extract_geometry_swapped_errors(m) ==
    IF m.position = None
    THEN [res |-> Err(NoVertexPositionData), lookups |-> <<"attribute">>]
    ELSE IF m.indices = None
    THEN [res |-> Err(NoVertexPositionData), lookups |-> <<"attribute", "indices">>]
    ELSE [res |-> Ok([verticies |-> m.position, indicies |-> m.indices]),
          lookups |-> <<"attribute", "indices">>]

extract_geometry(m) ==
    IF m.position = None
    THEN [res |-> Err(NoVertexPositionData), lookups |-> <<"attribute">>]
    ELSE IF m.indices = None
    THEN [res |-> Err(NoVertexIndicies), lookups |-> <<"attribute", "indices">>]
    ELSE [res |-> Ok([verticies |-> m.position, indicies |-> m.indices]),
          lookups |-> <<"attribute", "indices">>]

convert_verticies_any3(verticies) ==
    IF verticies.tag \in {"Float3", "Int3"}
    THEN Ok([i \in 1..Len(verticies.val) |-> Point_from_slice(verticies.val[i])])
    ELSE Err(UnsupportedFormatError("only [f32; 3] is supported"))

convert_verticies(verticies) ==
    IF verticies.tag = "Float3"
    THEN Ok([i \in 1..Len(verticies.val) |-> Point_from_slice(verticies.val[i])])
    ELSE Err(UnsupportedFormatError("only [f32; 3] is supported"))

\* slice::array_chunks::<3>
array_chunks_windows(val) ==
    [j \in 1..(IF Len(val) >= 3 THEN Len(val) - 2 ELSE 0)
        |-> <<val[j], val[j + 1], val[j + 2]>>]

array_chunks(val) ==
    [j \in 1..(Len(val) \div 3)
        |-> <<val[3 * (j - 1) + 1], val[3 * (j - 1) + 2], val[3 * (j - 1) + 3]>>]

convert_indicies_strict(indicies) ==
    IF indicies.tag = "U32" /\ Len(indicies.val) % 3 = 0
    THEN Ok(array_chunks(indicies.val))
    ELSE Err(UnsupportedFormatError("only u32 is supported"))

convert_indicies(indicies) ==
    IF indicies.tag = "U32"
    THEN Ok(array_chunks(indicies.val))
    ELSE Err(UnsupportedFormatError("only u32 is supported"))

\* TriMeshBuildError
Extracion(e) == [variant |-> "Extracion", source |-> e]
UnsupportedVerexDataFormat(e) == [variant |-> "UnsupportedVerexDataFormat", source |-> e]
UnsupportedIndexFormat(e) == [variant |-> "UnsupportedIndexFormat", source |-> e]

prepare_trimesh_from_mesh_indices_first(m) ==
    LET g == extract_geometry(m).res IN
    IF ~g.ok THEN Err(Extracion(g.err))
    ELSE LET i == convert_indicies(g.val.indicies) IN
         IF ~i.ok THEN Err(UnsupportedIndexFormat(i.err))
         ELSE LET v == convert_verticies(g.val.verticies) IN
              IF ~v.ok THEN Err(UnsupportedVerexDataFormat(v.err))
              ELSE Ok([verticies |-> v.val, indicies |-> i.val])

prepare_trimesh_from_mesh(m) ==
    LET g == extract_geometry(m).res IN
    IF ~g.ok THEN Err(Extracion(g.err))
    ELSE LET v == convert_verticies(g.val.verticies) IN
         IF ~v.ok THEN Err(UnsupportedVerexDataFormat(v.err))
         ELSE LET i == convert_indicies(g.val.indicies) IN
              IF ~i.ok THEN Err(UnsupportedIndexFormat(i.err))
              ELSE Ok([verticies |-> v.val, indicies |-> i.val])

\* Vec: collect() and Vec::clone put the items in a fresh buffer
collect(h, items) == [addr |-> Len(h) + 1, heap |-> Append(h, items)]

Vec_clone_shared(h, a) == [addr |-> a, heap |-> h]

Vec_clone(h, a) == collect(h, h[a])

\* TriMesh::new takes ownership of the two buffers
TriMesh_new(verticies, indicies) == [vertices |-> verticies, indices |-> indicies]

trimesh_from_mesh_reversed(h, m) ==
    LET p == prepare_trimesh_from_mesh(m) IN
    IF ~p.ok THEN [res |-> Err(p.err), heap |-> h]
    ELSE LET v == collect(h, [i \in 1..Len(p.val.verticies)
                                |-> p.val.verticies[Len(p.val.verticies) + 1 - i]])
             i == collect(v.heap, p.val.indicies)
         IN  [res |-> Ok(TriMesh_new(v.addr, i.addr)), heap |-> i.heap]

trimesh_from_mesh(h, m) ==
    LET p == prepare_trimesh_from_mesh(m) IN
    IF ~p.ok THEN [res |-> Err(p.err), heap |-> h]
    ELSE LET v == collect(h, p.val.verticies)
             i == collect(v.heap, p.val.indicies)
         IN  [res |-> Ok(TriMesh_new(v.addr, i.addr)), heap |-> i.heap]

\* CachedTriMeshBuilder::from_mesh
from_mesh(h, m) ==
    LET p == prepare_trimesh_from_mesh(m) IN
    IF ~p.ok THEN [res |-> Err(p.err), heap |-> h]
    ELSE LET v == collect(h, p.val.verticies)
             i == collect(v.heap, p.val.indicies)
         IN  [res |-> Ok([verticies |-> v.addr, indicies |-> i.addr]), heap |-> i.heap]

\* CachedTriMeshBuilder::build
build(h, self) ==
    LET v == Vec_clone(h, self.verticies)
        i == Vec_clone(v.heap, self.indicies)
    IN  [trimesh |-> TriMesh_new(v.addr, i.addr), heap |-> i.heap]

\* the vertex transforms a caller passes
Zero == <<0, 0, 0>>

Transforms ==
    { [kind |-> "identity",  v |-> Zero],
      [kind |-> "translate", v |-> <<1, 0, 0>>],
      [kind |-> "negate",    v |-> Zero] }

Apply(f, p) ==
    CASE f.kind = "identity"  -> p
      [] f.kind = "translate" -> [x |-> p.x + f.v[1], y |-> p.y + f.v[2], z |-> p.z + f.v[3]]
      [] f.kind = "negate"    -> [x |-> 0 - p.x, y |-> 0 - p.y, z |-> 0 - p.z]

\* CachedTriMeshBuilder::build_with_vertex_transform
build_with_vertex_transform_first_only(h, self, transform) ==
    LET v == collect(h, [k \in 1..Len(h[self.verticies])
                            |-> IF k = 1 THEN Apply(transform, h[self.verticies][k])
                                ELSE h[self.verticies][k]])
        i == Vec_clone(v.heap, self.indicies)
    IN  [trimesh |-> TriMesh_new(v.addr, i.addr), heap |-> i.heap]

build_with_vertex_transform(h, self, transform) ==
    LET v == collect(h, [k \in 1..Len(h[self.verticies])
                            |-> Apply(transform, h[self.verticies][k])])
        i == Vec_clone(v.heap, self.indicies)
    IN  [trimesh |-> TriMesh_new(v.addr, i.addr), heap |-> i.heap]

\* what a caller does to a TriMesh it owns: move the vertices, flip the triangles
MutatedVertices(vs) ==
    [k \in 1..Len(vs) |-> [x |-> vs[k].x + 1, y |-> vs[k].y + 1, z |-> vs[k].z + 1]]

MutatedIndices(is) == [k \in 1..Len(is) |-> <<is[k][2], is[k][1], is[k][3]>>]

----------------------------------------------------------------------------
\* Calls

NoCall == [op |-> "none", res |-> Pending]
NoArg == [kind |-> "none", buf |-> None]
NoMesh == [position |-> None, indices |-> None]
NothingCreated == [verticies |-> <<>>, indicies |-> <<>>]
Plain == [kind |-> "build", v |-> Zero]

InitRest ==
    /\ ret = NoCall
    /\ lookups = <<>>
    /\ oneshot = Pending
    /\ builder = Pending
    /\ created = NothingCreated
    /\ outs = <<>>
    /\ heap = <<>>

\* the caller may also hand the mesh's index buffer to convert_indicies itself
Init ==
    /\ mesh \in Meshes
    /\ arg = IF mesh.indices = None THEN NoArg ELSE [kind |-> "indicies", buf |-> mesh.indices]
    /\ InitRest

InitCache == mesh \in CacheMeshes /\ arg = NoArg /\ InitRest

InitConv ==
    /\ mesh = NoMesh
    /\ arg \in {[kind |-> "verticies", buf |-> b] : b \in ConvVertexBuffers}
              \cup {[kind |-> "indicies", buf |-> b] : b \in ConvIndexBuffers}
    /\ InitRest

ExtractGeometry ==
    /\ ret' = [op |-> "extract_geometry", res |-> extract_geometry(mesh).res]
    /\ lookups' = extract_geometry(mesh).lookups
    /\ UNCHANGED <<mesh, arg, oneshot, builder, created, outs, heap>>

ConvertVerticies ==
    /\ arg.kind = "verticies"
    /\ ret' = [op |-> "convert_verticies", res |-> convert_verticies(arg.buf)]
    /\ UNCHANGED <<mesh, arg, lookups, oneshot, builder, created, outs, heap>>

ConvertIndicies ==
    /\ arg.kind = "indicies"
    /\ ret' = [op |-> "convert_indicies", res |-> convert_indicies(arg.buf)]
    /\ UNCHANGED <<mesh, arg, lookups, oneshot, builder, created, outs, heap>>

PrepareTrimeshFromMesh ==
    /\ ret' = [op |-> "prepare_trimesh_from_mesh", res |-> prepare_trimesh_from_mesh(mesh)]
    /\ UNCHANGED <<mesh, arg, lookups, oneshot, builder, created, outs, heap>>

TrimeshFromMesh ==
    /\ oneshot = Pending
    /\ LET r == trimesh_from_mesh(heap, mesh) IN
        /\ oneshot' = r.res
        /\ heap' = r.heap
    /\ UNCHANGED <<mesh, arg, ret, lookups, builder, created, outs>>

FromMesh ==
    /\ builder = Pending
    /\ LET r == from_mesh(heap, mesh) IN
        /\ builder' = r.res
        /\ heap' = r.heap
        /\ created' = IF r.res.ok
                      THEN [verticies |-> r.heap[r.res.val.verticies],
                            indicies  |-> r.heap[r.res.val.indicies]]
                      ELSE created
    /\ UNCHANGED <<mesh, arg, ret, lookups, oneshot, outs>>

Build ==
    /\ builder.ok
    /\ Len(outs) < MaxBuilds
    /\ LET r == build(heap, builder.val) IN
        /\ outs' = Append(outs, [trimesh |-> r.trimesh, by |-> Plain, mutated |-> FALSE,
                                 returned |-> [vertices |-> r.heap[r.trimesh.vertices],
                                               indices |-> r.heap[r.trimesh.indices]]])
        /\ heap' = r.heap
    /\ UNCHANGED <<mesh, arg, ret, lookups, oneshot, builder, created>>

BuildWithVertexTransform ==
    /\ builder.ok
    /\ Len(outs) < MaxBuilds
    /\ \E f \in Transforms :
        LET r == build_with_vertex_transform(heap, builder.val, f) IN
        /\ outs' = Append(outs, [trimesh |-> r.trimesh, by |-> f, mutated |-> FALSE,
                                 returned |-> [vertices |-> r.heap[r.trimesh.vertices],
                                               indices |-> r.heap[r.trimesh.indices]]])
        /\ heap' = r.heap
    /\ UNCHANGED <<mesh, arg, ret, lookups, oneshot, builder, created>>

MutateOutput ==
    /\ \E k \in 1..Len(outs) :
        /\ ~outs[k].mutated
        /\ outs' = [outs EXCEPT ![k].mutated = TRUE]
        /\ heap' = [a \in 1..Len(heap) |->
                      IF a = outs[k].trimesh.vertices THEN MutatedVertices(heap[a])
                      ELSE IF a = outs[k].trimesh.indices THEN MutatedIndices(heap[a])
                      ELSE heap[a]]
    /\ UNCHANGED <<mesh, arg, ret, lookups, oneshot, builder, created>>

Next ==
    \/ ExtractGeometry
    \/ ConvertIndicies
    \/ PrepareTrimeshFromMesh
    \/ TrimeshFromMesh
    \/ FromMesh
    \/ Build

NextCache ==
    \/ FromMesh
    \/ Build
    \/ BuildWithVertexTransform
    \/ MutateOutput

NextConv ==
    \/ ConvertVerticies
    \/ ConvertIndicies

Spec == Init /\ [][Next]_vars

SpecCache == InitCache /\ [][NextCache]_vars

SpecConv == InitConv /\ [][NextConv]_vars

----------------------------------------------------------------------------
\* Properties

\* the contents of a TriMesh, and of the builder's buffers
Content(t) == [vertices |-> heap[t.vertices], indices |-> heap[t.indices]]
Cache == [verticies |-> heap[builder.val.verticies], indicies |-> heap[builder.val.indicies]]

FailsWith(r, variant) == ~r.ok /\ r.err.variant = variant

\* r is the result of one of the three mesh-level functions
FirstFailingStage(r) ==
    /\ (mesh.position = None \/ mesh.indices = None) => FailsWith(r, "Extracion")
    /\ (mesh.position # None /\ mesh.indices # None /\ mesh.position.tag # "Float3")
          => FailsWith(r, "UnsupportedVerexDataFormat")
    /\ (mesh.position.tag = "Float3" /\ mesh.indices.tag = "U16")
          => /\ FailsWith(r, "UnsupportedIndexFormat")
             /\ r.err.source = [error |-> "UnsupportedFormatError",
                                msg |-> "only u32 is supported"]

\* C1: prepare_trimesh_from_mesh, trimesh_from_mesh and from_mesh report the
\* first failing stage in the order extraction, vertex conversion, index
\* conversion: a missing buffer gives Extracion whatever the formats; both
\* present and a position buffer that is not Float3 gives
\* UnsupportedVerexDataFormat whatever the index format; Float3 positions with
\* U16 indices give UnsupportedIndexFormat.
C1_FirstFailingStage ==
    /\ ret.op = "prepare_trimesh_from_mesh" => FirstFailingStage(ret.res)
    /\ oneshot # Pending => FirstFailingStage(oneshot)
    /\ builder # Pending => FirstFailingStage(builder)

C1_Witness ==
    /\ mesh.position.tag = "Float3" /\ Len(mesh.position.val) = 3
    /\ mesh.indices.tag = "U16" /\ Len(mesh.indices.val) = 3
    /\ ret.op = "prepare_trimesh_from_mesh"
    /\ oneshot # Pending
    /\ builder # Pending
    /\ FailsWith(ret.res, "UnsupportedIndexFormat")
    /\ FailsWith(oneshot, "UnsupportedIndexFormat")
    /\ FailsWith(builder, "UnsupportedIndexFormat")

Looked(name) == \E i \in 1..Len(lookups) : lookups[i] = name

\* C2: on a mesh without a position attribute extract_geometry fails with
\* NoVertexPositionData and never calls the index accessor, whether or not the
\* mesh has an index buffer.
C2_NoPositionData ==
    (ret.op = "extract_geometry" /\ mesh.position = None)
        => /\ ret.res = Err([error |-> "NoVertexPositionData",
                             msg |-> "no vertex position data found in the specified mesh"])
           /\ ~Looked("indices")

C2_Witness ==
    /\ ret.op = "extract_geometry"
    /\ mesh.position = None
    /\ mesh.indices.tag = "U32" /\ Len(mesh.indices.val) = 3
    /\ ~ret.res.ok
    /\ lookups = <<"attribute">>

\* C3 as stated: on every mesh without an index buffer extract_geometry fails
\* with NoVertexIndicies.
C3_Original ==
    (ret.op = "extract_geometry" /\ mesh.indices = None)
        => ret.res = Err([error |-> "NoVertexIndicies",
                          msg |-> "no vertex indicies found in the specified mesh"])

\* C3: on every mesh that has a position attribute and no index buffer
\* extract_geometry fails with NoVertexIndicies.
C3_NoIndicies ==
    (ret.op = "extract_geometry" /\ mesh.position # None /\ mesh.indices = None)
        => ret.res = Err([error |-> "NoVertexIndicies",
                          msg |-> "no vertex indicies found in the specified mesh"])

C3_Witness ==
    /\ ret.op = "extract_geometry"
    /\ mesh.position.tag = "Float3" /\ Len(mesh.position.val) = 3
    /\ mesh.indices = None
    /\ ~ret.res.ok
    /\ ret.res.err.error = "NoVertexIndicies"
    /\ lookups = <<"attribute", "indices">>

\* C4: convert_verticies succeeds exactly on the Float3 variant; every other
\* variant fails with UnsupportedFormatError("only [f32; 3] is supported"); a
\* Float3 buffer of length N yields N points, the i-th with the three
\* components of the i-th entry.
C4_ConvertVerticies ==
    ret.op = "convert_verticies" =>
        /\ ret.res.ok <=> arg.buf.tag = "Float3"
        /\ ~ret.res.ok => ret.res.err = [error |-> "UnsupportedFormatError",
                                         msg |-> "only [f32; 3] is supported"]
        /\ ret.res.ok =>
              /\ Len(ret.res.val) = Len(arg.buf.val)
              /\ \A i \in 1..Len(arg.buf.val) :
                    /\ ret.res.val[i].x = arg.buf.val[i][1]
                    /\ ret.res.val[i].y = arg.buf.val[i][2]
                    /\ ret.res.val[i].z = arg.buf.val[i][3]

C4_Witness ==
    /\ ret.op = "convert_verticies"
    /\ arg.buf = [tag |-> "Float3", val |-> << <<0, 1, 0>>, <<1, 0, 1>> >>]
    /\ ret.res.ok
    /\ Len(ret.res.val) = 2

\* C5: convert_indicies succeeds exactly on the U32 variant; every other
\* variant fails with UnsupportedFormatError("only u32 is supported"); a U32
\* buffer of length 3K yields K triples, the j-th being
\* (buf[3j], buf[3j+1], buf[3j+2]) counting from zero.
C5_ConvertIndicies ==
    ret.op = "convert_indicies" =>
        /\ ret.res.ok <=> arg.buf.tag = "U32"
        /\ ~ret.res.ok => ret.res.err = [error |-> "UnsupportedFormatError",
                                         msg |-> "only u32 is supported"]
        /\ (ret.res.ok /\ Len(arg.buf.val) % 3 = 0) =>
              /\ 3 * Len(ret.res.val) = Len(arg.buf.val)
              /\ \A j \in 0..(Len(ret.res.val) - 1) :
                    ret.res.val[j + 1] = <<arg.buf.val[3 * j + 1],
                                           arg.buf.val[3 * j + 2],
                                           arg.buf.val[3 * j + 3]>>

C5_Witness ==
    /\ ret.op = "convert_indicies"
    /\ arg.buf = [tag |-> "U32", val |-> <<0, 1, 1, 1, 0, 0>>]
    /\ ret.res.ok
    /\ Len(ret.res.val) = 2

\* the first 3 * floor(L / 3) items of an index buffer, by threes
Triples(val) ==
    [j \in 1..(Len(val) \div 3) |-> SubSeq(val, 3 * j - 2, 3 * j)]

C10_WitnessNoTriple ==
    /\ mesh.position.tag = "Float3"
    /\ mesh.indices.tag = "U32" /\ Len(mesh.indices.val) = 2
    /\ builder # Pending /\ builder.ok /\ created.indicies = <<>>

ExampleMesh ==
    [position |-> [tag |-> "Float3", val |-> << <<0, 0, 0>>, <<1, 0, 0>>, <<0, 1, 0>> >>],
     indices  |-> [tag |-> "U32", val |-> <<0, 1, 2>>]]

ExampleContent ==
    [vertices |-> << [x |-> 0, y |-> 0, z |-> 0],
                     [x |-> 1, y |-> 0, z |-> 0],
                     [x |-> 0, y |-> 1, z |-> 0] >>,
     indices  |-> << <<0, 1, 2>> >>]

\* C6: trimesh_from_mesh(mesh) and from_mesh(mesh) followed by build() agree:
\* both fail with the error prepare_trimesh_from_mesh returns, and then there
\* is no builder and no TriMesh, or both give a TriMesh of the same vertex
\* sequence and the same triangle sequence; on the example mesh, the three
\* points in order and the one triangle (0, 1, 2).
C6_OneShotEqualsCached ==
    (oneshot # Pending /\ builder # Pending) =>
        /\ oneshot.ok <=> builder.ok
        /\ ~oneshot.ok =>
              /\ oneshot.err = builder.err
              /\ ret.op = "prepare_trimesh_from_mesh"
                    => (~ret.res.ok /\ ret.res.err = oneshot.err)
              /\ outs = <<>>
              /\ heap = <<>>
        /\ oneshot.ok =>
              /\ ret.op = "prepare_trimesh_from_mesh" => ret.res.ok
              /\ \A k \in 1..Len(outs) :
                    /\ outs[k].returned = Content(oneshot.val)
                    /\ Content(outs[k].trimesh) = Content(oneshot.val)
              /\ mesh = ExampleMesh =>
                    /\ Content(oneshot.val) = ExampleContent
                    /\ \A k \in 1..Len(outs) : outs[k].returned = ExampleContent

C6_Witness ==
    /\ mesh = ExampleMesh
    /\ oneshot # Pending /\ oneshot.ok
    /\ builder # Pending /\ builder.ok
    /\ Len(outs) >= 1
    /\ outs[1].returned = ExampleContent
    /\ Content(oneshot.val) = ExampleContent

\* both fail alike, and nothing is built
C6_WitnessFailure ==
    /\ mesh.position.tag = "Float2"
    /\ mesh.indices.tag = "U32"
    /\ oneshot # Pending /\ ~oneshot.ok
    /\ builder # Pending /\ ~builder.ok
    /\ oneshot.err = builder.err

\* C9 as stated: every index of every triple cached by a successful from_mesh
\* is less than the number of cached vertices, so that TriMesh construction in
\* build / build_with_vertex_transform cannot fail.
C9_CachedIndicesInRange ==
    (builder # Pending /\ builder.ok) =>
        \A j \in 1..Len(Cache.indicies) : \A c \in 1..3 :
            Cache.indicies[j][c] < Len(Cache.verticies)

\* C7: build_with_vertex_transform(f) returns a TriMesh with as many vertices
\* as the cache, the i-th being f of the i-th cached vertex, and with the
\* cached triangle sequence; with the identity it returns what build()
\* returns, with a translation by v every vertex is the cached one plus v.
C7_VertexTransform ==
    \A k \in 1..Len(outs) :
        LET out == outs[k].returned
            f == outs[k].by
        IN  f # Plain =>
              /\ Len(out.vertices) = Len(Cache.verticies)
              /\ \A i \in 1..Len(Cache.verticies) :
                    out.vertices[i] = Apply(f, Cache.verticies[i])
              /\ out.indices = Cache.indicies
              /\ f.kind = "identity" =>
                    /\ out = [vertices |-> Cache.verticies, indices |-> Cache.indicies]
                    /\ \A j \in 1..Len(outs) :
                          outs[j].by = Plain => out = outs[j].returned
              /\ f.kind = "translate" =>
                    \A i \in 1..Len(Cache.verticies) :
                        /\ out.vertices[i].x = Cache.verticies[i].x + f.v[1]
                        /\ out.vertices[i].y = Cache.verticies[i].y + f.v[2]
                        /\ out.vertices[i].z = Cache.verticies[i].z + f.v[3]

C7_Witness ==
    /\ builder # Pending /\ builder.ok
    /\ Len(Cache.verticies) = 2
    /\ Len(Cache.indicies) = 1
    /\ Len(outs) = 2
    /\ outs[1].by.kind = "translate"
    /\ outs[1].returned.vertices = << [x |-> 1, y |-> 0, z |-> 0], [x |-> 2, y |-> 0, z |-> 0] >>
    /\ outs[2].by.kind = "identity"
    /\ outs[2].returned.vertices = Cache.verticies

\* C8: after any sequence of build and build_with_vertex_transform calls the
\* builder's buffers hold what they held when from_mesh returned; all build()
\* calls return equal values; changing a returned TriMesh changes neither the
\* cache nor any other returned TriMesh.
C8_CacheUnchanged ==
    (builder # Pending /\ builder.ok) =>
        /\ Cache = created
        /\ \A j, k \in 1..Len(outs) :
              (outs[j].by = Plain /\ outs[k].by = Plain)
                  => outs[j].returned = outs[k].returned
        /\ \A k \in 1..Len(outs) :
              ~outs[k].mutated => Content(outs[k].trimesh) = outs[k].returned

C8_Witness ==
    /\ builder # Pending /\ builder.ok
    /\ Len(created.verticies) = 2
    /\ Len(created.indicies) = 1
    /\ Len(outs) = 2
    /\ outs[1].by = Plain /\ outs[1].mutated
    /\ Content(outs[1].trimesh) # outs[1].returned
    /\ outs[2].by = Plain /\ ~outs[2].mutated
    /\ Cache = created

====
